---- MODULE Spec2Model ----
(***************************************************************************)
(* Match-session engine of src/game-server/server.js: the two match        *)
(* queues, the session store (activeGames, playerToGame), the game         *)
(* session state machine with its wager escrow, the reconnect coordinator  *)
(* (disconnectedPlayers and grace timers) and the setTimeout callbacks.    *)
(*                                                                         *)
(* Every handler is a function from a state record (the fields are the     *)
(* module's variables) to a state record; an action applies one handler    *)
(* to the current state and commits the result.  Timers are kept in one    *)
(* sequence in order of expiry; the head is the next timer to fire.        *)
(***************************************************************************)
EXTENDS Integers, Sequences, FiniteSets, TLC

\* ---------------------------------------------------------------- bounds
NumWs == 4
MaxGames == 2
MaxEscrowGames == 1
MaxWager == 2
MaxResume == 2
NumPlayers == 2
InitHolding == 1
\* the malformed-message slice stops repeating a refund at this holding
MaxHolding == 3
NumSeekers == 3
MaxPlayGames == 1

\* ------------------------------------------------------- program constants
GAME_TIME == 180
RECONNECT_GRACE_PERIOD == 30000
countdownSeconds == 3

WS == 1..NumWs
NoName == "null"
GuestName == "guest"
AccountNames == {"alice", "bob"}
Items == {"gold_coin"}
NULL == << <<"null">> >>
\* endTime: null, pausedTimeRemaining: null
NoTime == -1

VARIABLES sockets, waitingPlayersCasual, waitingPlayersWager, gameObjs,
          activeGames, playerToGame, disconnectedPlayers, itemsData, timers,
          clock, ledger

vars == <<sockets, waitingPlayersCasual, waitingPlayersWager, gameObjs,
          activeGames, playerToGame, disconnectedPlayers, itemsData, timers,
          clock, ledger>>

\* ------------------------------------------------------------ small helpers
Max2(a, b) == IF a >= b THEN a ELSE b

MaxOf(S) == CHOOSE x \in S : \A y \in S : y <= x

MinOf(S) == CHOOSE x \in S : \A y \in S : x <= y

InSeq(x, s) == \E i \in 1..Len(s) : s[i] = x

IndexOf(x, s) == IF InSeq(x, s) THEN CHOOSE i \in 1..Len(s) : s[i] = x /\ \A j \in 1..(i-1) : s[j] # x ELSE 0

Splice(s, i) == SubSeq(s, 1, i - 1) \o SubSeq(s, i + 1, Len(s))

RemoveFrom(s, x) == IF InSeq(x, s) THEN Splice(s, IndexOf(x, s)) ELSE s

MapSet(m, k, v) == [x \in (DOMAIN m) \cup {k} |-> IF x = k THEN v ELSE m[x]]

MapDelete(m, k) == [x \in (DOMAIN m) \ {k} |-> m[x]]

Has(m, k) == k \in DOMAIN m

\* ------------------------------------------------------------------- words
W_cab == <<"c", "a", "b">>
W_CAB == <<"C", "A", "B">>
W_ABCDE == <<"A", "B", "C", "D", "E">>

W_ABC == <<"A", "B", "C">>
W_AB == <<"A", "B">>

WordInputs == { <<>>, <<W_cab, W_CAB, W_ABCDE>> }

\* msg.words that is no list (a number, an object): it has no map()
NotAList == << <<"notAList">> >>

\* the word lists of the scoring slice
ScoreInputs == { <<>>, <<W_CAB>>, <<W_ABC>>, <<W_CAB, W_ABC>>, <<W_ABC, W_CAB>>, <<W_cab, W_ABCDE>>,
                 <<W_ABCDE>>, <<W_AB, W_ABC>>, <<W_ABC, W_CAB, W_ABCDE>> }

toUpperCase(w) == [i \in 1..Len(w) |->
                     CASE w[i] = "a" -> "A"
                       [] w[i] = "b" -> "B"
                       [] w[i] = "c" -> "C"
                       [] OTHER -> w[i]]

RECURSIVE Dedup(_, _)
Dedup(ws, acc) == IF ws = <<>> THEN acc
                  ELSE IF InSeq(Head(ws), acc) THEN Dedup(Tail(ws), acc)
                  ELSE Dedup(Tail(ws), Append(acc, Head(ws)))

NormalizeWords(words) == Dedup([i \in 1..Len(words) |-> toUpperCase(words[i])], <<>>)

getWordScore(len) == IF len >= 8 THEN 11
                     ELSE CASE len = 3 -> 1
                            [] len = 4 -> 1
                            [] len = 5 -> 2
                            [] len = 6 -> 3
                            [] len = 7 -> 5
                            [] OTHER -> 0

RECURSIVE SumPoints(_)
SumPoints(sw) == IF sw = <<>> THEN 0 ELSE Head(sw).points + SumPoints(Tail(sw))

\* a.localeCompare(b) for words of capital letters: -1, 0 or 1
LetterRank(c) == CASE c = "A" -> 1 [] c = "B" -> 2 [] c = "C" -> 3 [] c = "D" -> 4 [] c = "E" -> 5 [] OTHER -> 0

RECURSIVE localeCompare(_, _)
localeCompare(a, b) == IF a = <<>> THEN (IF b = <<>> THEN 0 ELSE -1)
                       ELSE IF b = <<>> THEN 1
                       ELSE IF LetterRank(Head(a)) < LetterRank(Head(b)) THEN -1
                       ELSE IF LetterRank(Head(a)) > LetterRank(Head(b)) THEN 1
                       ELSE localeCompare(Tail(a), Tail(b))

\* the comparator of scoredWords.sort: by length descending, then alphabetically
SortsBefore(a, b) == Len(a.word) > Len(b.word)
                     \/ (Len(a.word) = Len(b.word) /\ localeCompare(a.word, b.word) < 0)

RECURSIVE SortInsert(_, _)
SortInsert(sorted, x) == IF sorted = <<>> THEN <<x>>
                         ELSE IF SortsBefore(x, Head(sorted)) THEN <<x>> \o sorted
                         ELSE <<Head(sorted)>> \o SortInsert(Tail(sorted), x)

RECURSIVE SortScored(_)
SortScored(sw) == IF sw = <<>> THEN <<>> ELSE SortInsert(SortScored(SubSeq(sw, 1, Len(sw) - 1)), sw[Len(sw)])

\* calculateResults giving a shared word its length-table points
calculateResults_SharedScores(words, sharedWords) ==
    LET scoredWords == [i \in 1..Len(words) |->
                          [word |-> words[i],
                           points |-> getWordScore(Len(words[i])),
                           shared |-> words[i] \in sharedWords]]
    IN [words |-> SortScored(scoredWords), score |-> SumPoints(scoredWords), wordCount |-> Len(words)]

calculateResults(words, sharedWords) ==
    LET scoredWords == [i \in 1..Len(words) |->
                          [word |-> words[i],
                           points |-> IF words[i] \in sharedWords THEN 0 ELSE getWordScore(Len(words[i])),
                           shared |-> words[i] \in sharedWords]]
    IN [words |-> SortScored(scoredWords), score |-> SumPoints(scoredWords), wordCount |-> Len(words)]

\* ------------------------------------------------------------------ wagers
emptyWager == [i \in Items |-> 0]

\* msg.wager of a message that carries no wager (or null): no map of
\* WagerInputs; reading an item of it throws
Undefined == [i \in Items |-> -1]

WagerInputs == [Items -> 0..MaxWager]

getPlayerData(name) == IF name \in AccountNames THEN name ELSE NoName

\* ------------------------------------------------------------------ timers
\* A pending setTimeout: d is its delay and rem the time left until it is due,
\* both in seconds.  The list is kept in order of expiry.  h is the game
\* object its closure holds, gid / pid / n the gameId, playerId and tick,
\* playerIndex or (resume) timeRemaining it holds; cur says that
\* disconnectedPlayers[pid].timeout is this timer.
Timer(k, d, h, gid, pid, n) == [k |-> k, d |-> d, rem |-> d, h |-> h, gid |-> gid, pid |-> pid, n |-> n, cur |-> TRUE]

\* Where a new timer may stand: behind every timer due earlier and every timer
\* of its own delay due at the same second (timers of one delay fire in the
\* order they were set), before every timer due later.  The clock of the
\* model counts seconds, so against a timer of another delay due in the same
\* second either order is possible.
Positions(tm, t) == LET before == {j \in 1..Len(tm) : tm[j].rem < t.rem \/ (tm[j].rem = t.rem /\ tm[j].d <= t.d)}
                        after == {j \in 1..Len(tm) : tm[j].rem > t.rem}
                        lo == IF before = {} THEN 0 ELSE MaxOf(before)
                        hi == IF after = {} THEN Len(tm) + 1 ELSE MinOf(after)
                    IN (lo + 1)..hi

InsertAt(tm, p, t) == SubSeq(tm, 1, p - 1) \o <<t>> \o SubSeq(tm, p, Len(tm))

setTimeout(tms, t) == UNION { {InsertAt(tm, p, t) : p \in Positions(tm, t)} : tm \in tms }

RECURSIVE ScheduleAll(_, _)
ScheduleAll(tms, ts) == IF ts = <<>> THEN tms ELSE ScheduleAll(setTimeout(tms, Head(ts)), Tail(ts))

\* clearTimeout of the timer that disconnectedPlayers[pid] refers to
clearTimeout(tm, pid) == SelectSeq(tm, LAMBDA t : ~(t.k = "grace" /\ t.pid = pid /\ t.cur))

\* the entry of pid is deleted or replaced: its timer is no longer referred to
Unref(tm, pid) == [i \in 1..Len(tm) |->
                     IF tm[i].k = "grace" /\ tm[i].pid = pid THEN [tm[i] EXCEPT !.cur = FALSE] ELSE tm[i]]

\* ------------------------------------------------------------ state record
\* The current state as a record; handlers map such records to records.
\* out collects the messages the running handler sends, pend the timers it
\* schedules (in the order of its setTimeout calls); err says that the
\* handler threw (a TypeError on a property of undefined) and stopped there.
Cur == [socks |-> sockets, casual |-> waitingPlayersCasual, wagerq |-> waitingPlayersWager,
        games |-> gameObjs, active |-> activeGames, p2g |-> playerToGame,
        disc |-> disconnectedPlayers, items |-> itemsData, timers |-> timers,
        clock |-> clock, out |-> {}, ledger |-> ledger, pend |-> <<>>, err |-> FALSE]

\* the statement that runs on st throws: what was assigned before stays
Throw(st) == [st EXCEPT !.err = TRUE]

\* The messages a handler sends are not kept in the state: they are read off
\* the handler's result (its out field) for the state it runs in.
Commit(st) ==
    /\ sockets' = st.socks
    /\ waitingPlayersCasual' = st.casual
    /\ waitingPlayersWager' = st.wagerq
    /\ gameObjs' = st.games
    /\ activeGames' = st.active
    /\ playerToGame' = st.p2g
    /\ disconnectedPlayers' = st.disc
    /\ itemsData' = st.items
    /\ timers' \in ScheduleAll({st.timers}, st.pend)
    /\ clock' = st.clock
    /\ ledger' = st.ledger

\* ws.send(JSON.stringify(msg))
Send(st, w, msg) == [st EXCEPT !.out = @ \cup {[to |-> w, msg |-> msg]}]

\* p.connected && p.ws.readyState === WebSocket.OPEN
CanSend(st, p) == p.connected /\ st.socks[p.ws].open

SendIfOpen(st, p, msg) == IF CanSend(st, p) THEN Send(st, p.ws, msg) ELSE st

broadcastToGame(st, h, msg) ==
    SendIfOpen(SendIfOpen(st, st.games[h].players[1], msg), st.games[h].players[2], msg)

\* findIndex that takes an id that is in no slot for the first slot's
findIndex_NeverMissing(g, pid) == IF g.players[2].id = pid THEN 2 ELSE 1

\* game.players.findIndex(p => p.id === pid): 1 or 2, 0 for the source's -1
findIndex(g, pid) == IF g.players[1].id = pid THEN 1
                     ELSE IF g.players[2].id = pid THEN 2 ELSE 0

\* inventory[item] += map[item] for every item, when the account exists
Credit(items, name, map) ==
    IF getPlayerData(name) = NoName THEN items
    ELSE [items EXCEPT ![name] = [i \in Items |-> @[i] + map[i]]]

\* inventory[item] = Math.max(0, inventory[item] - wager[item]) where wager[item] > 0
Debit(items, name, wager) ==
    IF getPlayerData(name) = NoName THEN items
    ELSE [items EXCEPT ![name] = [i \in Items |->
              IF wager[i] > 0 THEN Max2(0, @[i] - wager[i]) ELSE @[i]]]

\* bookkeeping of the escrow statements executed for a session object:
\* settled / refunded count the runs of the settlement block of finishGame
\* and of the refund loop of leave_wager / cancel_ready; credited[i] counts
\* the times slot i's stored wager was added to an inventory.
NewLedger == [settled |-> 0, refunded |-> 0, credited |-> <<0, 0>>]

\* Math.max(0, Math.floor((game.endTime - Date.now()) / 1000)).  endTime is
\* kept as the seconds from now to the end of the round (never below 0);
\* with endTime null the difference is negative and the result 0.
SecondsLeft(game) == IF game.endTime = NoTime THEN 0 ELSE Max2(0, game.endTime)

\* ------------------------------------------------------- session creation
startCountdownPhase(st, h) ==
    [st EXCEPT !.games[h].status = "countdown",
               !.pend = @ \o << Timer("cd_tick", 0, h, st.games[h].id, 0, 3),
                                Timer("cd_tick", 1, h, st.games[h].id, 0, 2),
                                Timer("cd_tick", 2, h, st.games[h].id, 0, 1),
                                Timer("cd_end", countdownSeconds, h, st.games[h].id, 0, 0),
                                Timer("stuck", GAME_TIME + 15 + countdownSeconds, h, st.games[h].id, 0, 0) >>]

NewSlot(st, w) == [ws |-> w, id |-> st.socks[w].playerId, name |-> st.socks[w].playerName,
                   words |-> NULL, connected |-> TRUE, wager |-> emptyWager,
                   wagerConfirmed |-> FALSE, ready |-> FALSE]

\* gameId is built from Date.now(): sameMs says that the clock still shows
\* the millisecond of the previous startGame (clock.same: no timer has
\* expired since), otherwise the id is a new one.
startGame(st, player1, player2, wagerMode, sameMs) ==
    LET h == Len(st.games) + 1
        gameId == IF sameMs /\ st.clock.same THEN st.clock.stamp ELSE st.clock.stamp + 1
        game == [id |-> gameId, wagerMode |-> wagerMode,
                 players |-> <<NewSlot(st, player1), NewSlot(st, player2)>>,
                 status |-> IF wagerMode THEN "wager" ELSE "countdown",
                 paused |-> FALSE, endTime |-> NoTime, pausedTimeRemaining |-> NoTime]
        st1 == [st EXCEPT !.games = Append(@, game),
                          !.active = MapSet(@, gameId, h),
                          !.p2g = MapSet(MapSet(@, st.socks[player1].playerId, gameId),
                                         st.socks[player2].playerId, gameId),
                          !.clock = [stamp |-> gameId, same |-> TRUE],
                          !.ledger = Append(@, NewLedger)]
        st2 == Send(st1, player1, [type |-> "game_matched", gameId |-> gameId,
                                   wagerMode |-> wagerMode, opponent |-> st.socks[player2].playerName])
        st3 == Send(st2, player2, [type |-> "game_matched", gameId |-> gameId,
                                   wagerMode |-> wagerMode, opponent |-> st.socks[player1].playerName])
    IN IF ~wagerMode THEN startCountdownPhase(st3, h) ELSE st3

\* ------------------------------------------------------------ match queue
\* handleFindGame without the playerToGame check
handleFindGame_NoSessionCheck(st, w, wagerMode, sameMs) ==
    LET named == [st EXCEPT !.socks[w].playerName = IF @ = NoName THEN GuestName ELSE @]
        queue == IF wagerMode THEN st.wagerq ELSE st.casual
    IN IF InSeq(w, st.casual) \/ InSeq(w, st.wagerq)
         THEN Send(st, w, [type |-> "error", message |-> "Already searching"])
       ELSE IF Len(queue) > 0
         THEN startGame(IF wagerMode THEN [named EXCEPT !.wagerq = Tail(@)]
                                     ELSE [named EXCEPT !.casual = Tail(@)],
                        w, Head(queue), wagerMode, sameMs)
       ELSE Send(IF wagerMode THEN [named EXCEPT !.wagerq = Append(@, w)]
                              ELSE [named EXCEPT !.casual = Append(@, w)],
                 w, [type |-> "searching"])

\* handleFindGame taking the waiting player from whichever queue has one
handleFindGame_AnyQueue(st, w, wagerMode, sameMs) ==
    LET named == [st EXCEPT !.socks[w].playerName = IF @ = NoName THEN GuestName ELSE @]
    IN IF InSeq(w, st.casual) \/ InSeq(w, st.wagerq)
         THEN Send(st, w, [type |-> "error", message |-> "Already searching"])
       ELSE IF Has(st.p2g, st.socks[w].playerId)
         THEN Send(st, w, [type |-> "error", message |-> "Already in game"])
       ELSE IF Len(st.casual) > 0
         THEN startGame([named EXCEPT !.casual = Tail(@)], w, Head(st.casual), wagerMode, sameMs)
       ELSE IF Len(st.wagerq) > 0
         THEN startGame([named EXCEPT !.wagerq = Tail(@)], w, Head(st.wagerq), wagerMode, sameMs)
       ELSE Send(IF wagerMode THEN [named EXCEPT !.wagerq = Append(@, w)]
                              ELSE [named EXCEPT !.casual = Append(@, w)],
                 w, [type |-> "searching"])

\* handleFindGame without the 'Already searching' check
handleFindGame_NoQueueCheck(st, w, wagerMode, sameMs) ==
    LET named == [st EXCEPT !.socks[w].playerName = IF @ = NoName THEN GuestName ELSE @]
        queue == IF wagerMode THEN st.wagerq ELSE st.casual
    IN IF Has(st.p2g, st.socks[w].playerId)
         THEN Send(st, w, [type |-> "error", message |-> "Already in game"])
       ELSE IF Len(queue) > 0
         THEN startGame(IF wagerMode THEN [named EXCEPT !.wagerq = Tail(@)]
                                     ELSE [named EXCEPT !.casual = Tail(@)],
                        w, Head(queue), wagerMode, sameMs)
       ELSE Send(IF wagerMode THEN [named EXCEPT !.wagerq = Append(@, w)]
                              ELSE [named EXCEPT !.casual = Append(@, w)],
                 w, [type |-> "searching"])

handleFindGame(st, w, wagerMode, sameMs) ==
    LET inCasual == InSeq(w, st.casual)
        inWager == InSeq(w, st.wagerq)
        named == [st EXCEPT !.socks[w].playerName = IF @ = NoName THEN GuestName ELSE @]
        queue == IF wagerMode THEN st.wagerq ELSE st.casual
    IN IF inCasual \/ inWager
         THEN Send(st, w, [type |-> "error", message |-> "Already searching"])
       ELSE IF Has(st.p2g, st.socks[w].playerId)
         THEN Send(st, w, [type |-> "error", message |-> "Already in game"])
       ELSE IF Len(queue) > 0
         THEN LET opponent == Head(queue)
                  popped == IF wagerMode THEN [named EXCEPT !.wagerq = Tail(@)]
                                         ELSE [named EXCEPT !.casual = Tail(@)]
              IN startGame(popped, w, opponent, wagerMode, sameMs)
       ELSE Send(IF wagerMode THEN [named EXCEPT !.wagerq = Append(@, w)]
                              ELSE [named EXCEPT !.casual = Append(@, w)],
                 w, [type |-> "searching"])

\* handleCancelSearch looking for the connection in the casual queue only
handleCancelSearch_CasualOnly(st, w) ==
    IF InSeq(w, st.casual)
      THEN Send([st EXCEPT !.casual = Splice(@, IndexOf(w, @))], w, [type |-> "search_cancelled"])
    ELSE st

handleCancelSearch(st, w) ==
    IF InSeq(w, st.casual)
      THEN Send([st EXCEPT !.casual = Splice(@, IndexOf(w, @))], w, [type |-> "search_cancelled"])
    ELSE IF InSeq(w, st.wagerq)
      THEN Send([st EXCEPT !.wagerq = Splice(@, IndexOf(w, @))], w, [type |-> "search_cancelled"])
    ELSE st

\* ----------------------------------------------------------- wager phase
handleUpdateWager(st, w, gameId, wager) ==
    IF ~Has(st.active, gameId) THEN st
    ELSE LET h == st.active[gameId]
             game == st.games[h]
             playerIndex == findIndex(game, st.socks[w].playerId)
         IN IF game.status # "wager" \/ playerIndex = 0 THEN st
            ELSE SendIfOpen([st EXCEPT !.games[h].players[playerIndex].wager = wager],
                            game.players[3 - playerIndex],
                            [type |-> "wager_updated", wager |-> wager])

\* wagers_locked to both players once both slots are confirmed
LockWagers(st, h) ==
    LET g == st.games[h]
    IN IF g.players[1].wagerConfirmed /\ g.players[2].wagerConfirmed
       THEN LET st1 == [st EXCEPT !.games[h].status = "ready"]
                st2 == SendIfOpen(st1, g.players[1], [type |-> "wagers_locked",
                           myWager |-> g.players[1].wager, oppWager |-> g.players[2].wager])
            IN SendIfOpen(st2, g.players[2], [type |-> "wagers_locked",
                           myWager |-> g.players[2].wager, oppWager |-> g.players[1].wager])
       ELSE st

handleConfirmWager(st, w, gameId, wager) ==
    IF ~Has(st.active, gameId) THEN st
    ELSE LET h == st.active[gameId]
             game == st.games[h]
             playerIndex == findIndex(game, st.socks[w].playerId)
         IN IF game.status # "wager" \/ playerIndex = 0 THEN st
            ELSE LET player == game.players[playerIndex]
                     items1 == Debit(st.items, player.name, wager)
                     st0 == [st EXCEPT !.games[h].players[playerIndex].wager = wager,
                                       !.games[h].players[playerIndex].wagerConfirmed = TRUE]
                     st1 == [st0 EXCEPT !.items = items1]
                     st2 == SendIfOpen(st1, game.players[3 - playerIndex],
                                       [type |-> "opponent_wager_confirmed"])
                 IN IF wager = Undefined /\ getPlayerData(player.name) # NoName
                    THEN Throw(st0)
                    ELSE LockWagers(st2, h)

\* the refund loop of leave_wager and cancel_ready for one slot
RefundSlot(st, h, i) ==
    LET p == st.games[h].players[i]
    IN IF st.err THEN st
       ELSE IF p.wagerConfirmed /\ getPlayerData(p.name) # NoName
       THEN IF p.wager = Undefined THEN Throw(st)
            ELSE [st EXCEPT !.items = Credit(@, p.name, p.wager),
                            !.ledger[h].credited[i] = @ + 1]
       ELSE st

handleLeaveWager(st, w, gameId) ==
    IF ~Has(st.active, gameId) THEN st
    ELSE LET h == st.active[gameId]
             game == st.games[h]
             playerIndex == findIndex(game, st.socks[w].playerId)
         IN IF playerIndex = 0 THEN st
            ELSE LET st1 == RefundSlot(RefundSlot(st, h, 1), h, 2)
                     st2 == [st1 EXCEPT !.ledger[h].refunded = @ + 1]
                     st3 == SendIfOpen(st2, game.players[3 - playerIndex],
                                       [type |-> "opponent_cancelled_wager"])
                 IN IF st1.err THEN st1
                    ELSE [st3 EXCEPT !.p2g = MapDelete(MapDelete(@, game.players[1].id), game.players[2].id),
                                     !.active = MapDelete(@, gameId)]

handleCancelReady(st, w, gameId) == handleLeaveWager(st, w, gameId)

\* handlePlayerReady that starts the countdown when either slot is ready
handlePlayerReady_EitherReady(st, w, gameId) ==
    IF ~Has(st.active, gameId) THEN st
    ELSE LET h == st.active[gameId]
             game == st.games[h]
             playerIndex == findIndex(game, st.socks[w].playerId)
         IN IF game.status # "ready" \/ playerIndex = 0 THEN st
            ELSE LET st1 == [st EXCEPT !.games[h].players[playerIndex].ready = TRUE]
                     st2 == SendIfOpen(st1, game.players[3 - playerIndex], [type |-> "opponent_ready"])
                 IN IF st2.games[h].players[1].ready \/ st2.games[h].players[2].ready
                    THEN startCountdownPhase(
                             broadcastToGame(st2, h, [type |-> "both_ready", countdown |-> 3]), h)
                    ELSE st2

handlePlayerReady(st, w, gameId) ==
    IF ~Has(st.active, gameId) THEN st
    ELSE LET h == st.active[gameId]
             game == st.games[h]
             playerIndex == findIndex(game, st.socks[w].playerId)
         IN IF game.status # "ready" \/ playerIndex = 0 THEN st
            ELSE LET st1 == [st EXCEPT !.games[h].players[playerIndex].ready = TRUE]
                     st2 == SendIfOpen(st1, game.players[3 - playerIndex], [type |-> "opponent_ready"])
                 IN IF st2.games[h].players[1].ready /\ st2.games[h].players[2].ready
                    THEN startCountdownPhase(
                             broadcastToGame(st2, h, [type |-> "both_ready", countdown |-> 3]), h)
                    ELSE st2

\* ------------------------------------------------------ pause and resume
\* pauseGame that marks the session paused without taking the snapshot
pauseGame_NoSnapshot(st, h) ==
    IF st.games[h].paused THEN st
    ELSE broadcastToGame([st EXCEPT !.games[h].paused = TRUE],
                         h, [type |-> "game_paused", timeRemaining |-> SecondsLeft(st.games[h])])

\* pauseGame without its early return for a session that is paused already
pauseGame_Overwrites(st, h) ==
    broadcastToGame([st EXCEPT !.games[h].paused = TRUE,
                               !.games[h].pausedTimeRemaining = SecondsLeft(st.games[h])],
                    h, [type |-> "game_paused", timeRemaining |-> SecondsLeft(st.games[h])])

pauseGame(st, h) ==
    IF st.games[h].paused THEN st
    ELSE broadcastToGame([st EXCEPT !.games[h].paused = TRUE,
                                    !.games[h].pausedTimeRemaining = SecondsLeft(st.games[h])],
                         h, [type |-> "game_paused", timeRemaining |-> SecondsLeft(st.games[h])])

resumeGame(st, h) ==
    IF ~st.games[h].paused THEN st
    ELSE LET timeRemaining == st.games[h].pausedTimeRemaining
             st1 == broadcastToGame(st, h, [type |-> "game_resuming", countdown |-> countdownSeconds,
                                            timeRemaining |-> timeRemaining])
         IN [st1 EXCEPT !.pend = @ \o << Timer("rs_tick", 0, h, st.games[h].id, 0, 3),
                                         Timer("rs_tick", 1, h, st.games[h].id, 0, 2),
                                         Timer("rs_tick", 2, h, st.games[h].id, 0, 1),
                                         Timer("rs_end", countdownSeconds, h, st.games[h].id, 0, timeRemaining) >>]

\* -------------------------------------------------------------- reconnect
handleReconnect(st, w, gameId, oldPlayerId) ==
    IF ~Has(st.active, gameId)
      THEN Send(st, w, [type |-> "reconnect_failed", reason |-> "Game not found or already ended"])
    ELSE LET h == st.active[gameId]
             game == st.games[h]
             playerIndex == findIndex(game, oldPlayerId)
         IN IF playerIndex = 0
              THEN Send(st, w, [type |-> "reconnect_failed", reason |-> "Player not in game"])
            ELSE LET player == game.players[playerIndex]
                     opponent == game.players[3 - playerIndex]
                     hasInfo == Has(st.disc, oldPlayerId)
                     st1 == IF hasInfo
                            THEN [st EXCEPT !.timers = clearTimeout(@, oldPlayerId),
                                            !.disc = MapDelete(@, oldPlayerId)]
                            ELSE st
                     st2 == [st1 EXCEPT !.games[h].players[playerIndex].ws = w,
                                        !.games[h].players[playerIndex].connected = TRUE,
                                        !.socks[w].playerId = oldPlayerId,
                                        !.socks[w].playerName = player.name,
                                        !.p2g = MapSet(@, oldPlayerId, gameId)]
                     timeRemaining == IF game.paused /\ game.pausedTimeRemaining # NoTime
                                      THEN game.pausedTimeRemaining ELSE SecondsLeft(game)
                     st3 == Send(st2, w, [type |-> "reconnect_success", gameId |-> gameId,
                                          timeRemaining |-> timeRemaining,
                                          opponent |-> opponent.name, paused |-> game.paused,
                                          words |-> IF hasInfo THEN st.disc[oldPlayerId].words ELSE <<>>])
                     st4 == IF game.paused /\ ~opponent.connected
                              THEN Send(st3, w, [type |-> "game_paused"])
                            ELSE IF game.paused THEN resumeGame(st3, h)
                            ELSE st3
                 IN SendIfOpen(st4, st4.games[h].players[3 - playerIndex],
                               [type |-> "opponent_reconnected"])

\* ------------------------------------------------- finish and settlement
\* cleanupGame keeping the session in activeGames and playerToGame
cleanupGame_KeepsSession(st, gameId) ==
    IF ~Has(st.active, gameId) THEN st
    ELSE LET game == st.games[st.active[gameId]]
         IN [st EXCEPT !.disc = MapDelete(MapDelete(@, game.players[1].id), game.players[2].id)]

cleanupGame(st, gameId) ==
    IF ~Has(st.active, gameId) THEN st
    ELSE LET game == st.games[st.active[gameId]]
             id1 == game.players[1].id
             id2 == game.players[2].id
         IN [st EXCEPT !.p2g = MapDelete(MapDelete(@, id1), id2),
                       !.disc = MapDelete(MapDelete(@, id1), id2),
                       !.timers = Unref(Unref(@, id1), id2),
                       !.active = MapDelete(@, gameId)]

WordsOf(p) == IF p.words = NULL THEN <<>> ELSE p.words

SharedWords(p1Words, p2Words) == {p1Words[i] : i \in {j \in 1..Len(p1Words) : InSeq(p1Words[j], p2Words)}}

\* the comparison with >= in place of >
WinnerIndex_NotLess(score1, score2) == IF score1 >= score2 THEN 1 ELSE 2

\* 1 or 2, 0 for the source's -1 (no winner)
WinnerIndex(score1, score2) == IF score1 > score2 THEN 1
                               ELSE IF score2 > score1 THEN 2 ELSE 0

Pot(game) == [i \in Items |-> game.players[1].wager[i] + game.players[2].wager[i]]

\* the tie branch for one slot
ReturnWager(st, h, i) ==
    LET p == st.games[h].players[i]
    IN IF getPlayerData(p.name) # NoName
       THEN [st EXCEPT !.items = Credit(@, p.name, p.wager),
                       !.ledger[h].credited[i] = @ + 1]
       ELSE st

\* the "Distribute wager winnings" block
SettleWager(st, h, winnerIndex) ==
    LET game == st.games[h]
        pot == Pot(game)
        hasWager == \E i \in Items : pot[i] > 0
    IN IF hasWager /\ winnerIndex # 0
         THEN LET winnerName == game.players[winnerIndex].name
              IN IF getPlayerData(winnerName) # NoName
                 THEN [st EXCEPT !.items = Credit(@, winnerName, pot),
                                 !.ledger[h].settled = @ + 1,
                                 !.ledger[h].credited = <<@[1] + 1, @[2] + 1>>]
                 ELSE [st EXCEPT !.ledger[h].settled = @ + 1]
       ELSE IF hasWager
         THEN [ReturnWager(ReturnWager(st, h, 1), h, 2) EXCEPT !.ledger[h].settled = @ + 1]
       ELSE st

finishGame(st, gameId) ==
    IF ~Has(st.active, gameId) THEN st
    ELSE LET h == st.active[gameId]
             game == st.games[h]
         IN IF game.status = "finished" THEN st
            ELSE LET p1Words == WordsOf(game.players[1])
                     p2Words == WordsOf(game.players[2])
                     shared == SharedWords(p1Words, p2Words)
                     p1Results == calculateResults(p1Words, shared)
                     p2Results == calculateResults(p2Words, shared)
                     winnerIndex == WinnerIndex(p1Results.score, p2Results.score)
                     winner == IF winnerIndex = 0 THEN NoName ELSE game.players[winnerIndex].name
                     pot == Pot(game)
                     hasWager == \E i \in Items : pot[i] > 0
                     st1 == SettleWager([st EXCEPT !.games[h].status = "finished"], h, winnerIndex)
                     st2 == SendIfOpen(st1, game.players[1],
                               [type |-> "game_end", winner |-> winner, sharedWords |-> shared,
                                you |-> p1Results, opponent |-> p2Results,
                                hasWager |-> hasWager, pot |-> pot])
                     st3 == SendIfOpen(st2, game.players[2],
                               [type |-> "game_end", winner |-> winner, sharedWords |-> shared,
                                you |-> p2Results, opponent |-> p1Results,
                                hasWager |-> hasWager, pot |-> pot])
                 IN IF game.players[1].wager = Undefined \/ game.players[2].wager = Undefined
                    THEN Throw([st EXCEPT !.games[h].status = "finished"])
                    ELSE cleanupGame(st3, gameId)

handleSubmitWords(st, w, words) ==
    IF ~Has(st.p2g, st.socks[w].playerId)
      THEN Send(st, w, [type |-> "error", message |-> "Not in a game"])
    ELSE LET gameId == st.p2g[st.socks[w].playerId]
         IN IF ~Has(st.active, gameId) THEN st
            ELSE LET h == st.active[gameId]
                     i == findIndex(st.games[h], st.socks[w].playerId)
                 IN IF i = 0 THEN st
                    ELSE IF words = NotAList THEN Throw(st)
                    ELSE LET st1 == [st EXCEPT !.games[h].players[i].words = NormalizeWords(words)]
                         IN IF st1.games[h].players[1].words # NULL /\ st1.games[h].players[2].words # NULL
                            THEN finishGame(st1, gameId)
                            ELSE st1

\* ------------------------------------------------------------- disconnect
handleDisconnect(st, w) ==
    LET pid == st.socks[w].playerId
        st0 == [st EXCEPT !.socks[w].open = FALSE,
                          !.casual = RemoveFrom(@, w),
                          !.wagerq = RemoveFrom(@, w)]
    IN IF ~Has(st0.p2g, pid) THEN st0
       ELSE LET gameId == st0.p2g[pid]
            IN IF ~Has(st0.active, gameId) THEN st0
               ELSE LET h == st0.active[gameId]
                        game == st0.games[h]
                        playerIndex == findIndex(game, pid)
                    IN IF game.status = "finished" \/ playerIndex = 0 THEN st0
                       ELSE LET st1 == [st0 EXCEPT
                                          !.games[h].players[playerIndex].connected = FALSE,
                                          !.disc = MapSet(@, pid, [gameId |-> gameId,
                                                       playerIndex |-> playerIndex,
                                                       words |-> WordsOf(game.players[playerIndex])]),
                                          !.timers = Unref(@, pid),
                                          !.pend = @ \o <<Timer("grace", RECONNECT_GRACE_PERIOD \div 1000,
                                                                h, gameId, pid, playerIndex)>>]
                                st2 == pauseGame(st1, h)
                            IN SendIfOpen(st2, st2.games[h].players[3 - playerIndex],
                                          [type |-> "opponent_disconnected", canReconnect |-> TRUE,
                                           gracePeriod |-> RECONNECT_GRACE_PERIOD \div 1000])

\* -------------------------------------------------------- timer callbacks
\* activeGames.has(game.id) for the game object the closure holds
StoreHasId(st, h) == Has(st.active, st.games[h].id)

CountdownTick(st, t) ==
    IF StoreHasId(st, t.h) /\ st.games[t.h].status = "countdown"
    THEN broadcastToGame(st, t.h, [type |-> "countdown_tick", seconds |-> t.n])
    ELSE st

CountdownEnd(st, t) ==
    IF StoreHasId(st, t.h) /\ st.games[t.h].status = "countdown"
    THEN broadcastToGame([st EXCEPT !.games[t.h].status = "active",
                                    !.games[t.h].endTime = GAME_TIME], t.h,
                         [type |-> "game_start", duration |-> GAME_TIME])
    ELSE st

StuckTimeout(st, t) ==
    IF StoreHasId(st, t.h) /\ st.games[t.h].status # "finished"
    THEN finishGame(st, st.games[t.h].id)
    ELSE st

\* the grace callback without its finishGame call
GraceExpired_NotifyOnly(st, t) ==
    LET st1 == [st EXCEPT !.disc = MapDelete(@, t.pid), !.timers = Unref(@, t.pid)]
    IN SendIfOpen(st1, st1.games[t.h].players[3 - t.n],
                  [type |-> "opponent_left", reason |-> "Opponent did not reconnect"])

GraceExpired(st, t) ==
    LET st1 == [st EXCEPT !.disc = MapDelete(@, t.pid), !.timers = Unref(@, t.pid)]
        st2 == SendIfOpen(st1, st1.games[t.h].players[3 - t.n],
                          [type |-> "opponent_left", reason |-> "Opponent did not reconnect"])
    IN finishGame(st2, t.gid)

ResumeTick(st, t) ==
    IF st.games[t.h].paused
    THEN broadcastToGame(st, t.h, [type |-> "countdown_tick", seconds |-> t.n])
    ELSE st

ResumeEnd(st, t) ==
    IF ~st.games[t.h].paused THEN st
    ELSE broadcastToGame([st EXCEPT !.games[t.h].endTime = t.n,
                                    !.games[t.h].paused = FALSE,
                                    !.games[t.h].pausedTimeRemaining = NoTime], t.h,
                         [type |-> "game_resumed", timeRemaining |-> t.n])

\* the next timer to expire is taken off the list and its callback runs
Popped == [Cur EXCEPT !.timers = Tail(@)]

\* ----------------------------------------------------------------- actions
\* set_name as the client sends it at login: on a connection without a name
SetName(w, name) ==
    /\ sockets[w].open
    /\ sockets[w].playerName = NoName
    /\ Commit([Cur EXCEPT !.socks[w].playerName = name])

FindGame(w, wagerMode, sameMs) ==
    /\ sockets[w].open
    /\ Commit(handleFindGame(Cur, w, wagerMode, sameMs))

CancelSearch(w) ==
    /\ sockets[w].open
    /\ Commit(handleCancelSearch(Cur, w))

UpdateWager(w, gameId, wager) ==
    /\ sockets[w].open
    /\ Commit(handleUpdateWager(Cur, w, gameId, wager))

ConfirmWager(w, gameId, wager) ==
    /\ sockets[w].open
    /\ Commit(handleConfirmWager(Cur, w, gameId, wager))

LeaveWager(w, gameId) ==
    /\ sockets[w].open
    /\ Commit(handleLeaveWager(Cur, w, gameId))

CancelReady(w, gameId) ==
    /\ sockets[w].open
    /\ Commit(handleCancelReady(Cur, w, gameId))

PlayerReady(w, gameId) ==
    /\ sockets[w].open
    /\ Commit(handlePlayerReady(Cur, w, gameId))

SubmitWords(w, words) ==
    /\ sockets[w].open
    /\ Commit(handleSubmitWords(Cur, w, words))

PendingResumes == Cardinality({i \in 1..Len(timers) : timers[i].k = "rs_end"})

\* a connection that has sent nothing yet
Fresh(w) == /\ sockets[w].open
            /\ sockets[w].playerId = w
            /\ sockets[w].playerName = NoName
            /\ ~InSeq(w, waitingPlayersCasual) /\ ~InSeq(w, waitingPlayersWager)
            /\ ~Has(playerToGame, w)

Reconnect(w, gameId, oldPlayerId) ==
    /\ sockets[w].open
    /\ PendingResumes < MaxResume
    /\ Commit(handleReconnect(Cur, w, gameId, oldPlayerId))

\* the reconnect message as the client sends it: first on a new connection
FreshReconnect(w, gameId, oldPlayerId) ==
    /\ Fresh(w)
    /\ Reconnect(w, gameId, oldPlayerId)

Disconnect(w) ==
    /\ sockets[w].open
    /\ Commit(handleDisconnect(Cur, w))

FireCountdownTick ==
    /\ timers # <<>> /\ Head(timers).rem = 0 /\ Head(timers).k = "cd_tick"
    /\ Commit(CountdownTick(Popped, Head(timers)))

FireCountdownEnd ==
    /\ timers # <<>> /\ Head(timers).rem = 0 /\ Head(timers).k = "cd_end"
    /\ Commit(CountdownEnd(Popped, Head(timers)))

FireStuckTimeout ==
    /\ timers # <<>> /\ Head(timers).rem = 0 /\ Head(timers).k = "stuck"
    /\ ~StuckTimeout(Popped, Head(timers)).err
    /\ Commit(StuckTimeout(Popped, Head(timers)))

FireGraceExpired ==
    /\ timers # <<>> /\ Head(timers).rem = 0 /\ Head(timers).k = "grace"
    /\ ~GraceExpired(Popped, Head(timers)).err
    /\ Commit(GraceExpired(Popped, Head(timers)))

FireResumeTick ==
    /\ timers # <<>> /\ Head(timers).rem = 0 /\ Head(timers).k = "rs_tick"
    /\ Commit(ResumeTick(Popped, Head(timers)))

FireResumeEnd ==
    /\ timers # <<>> /\ Head(timers).rem = 0 /\ Head(timers).k = "rs_end"
    /\ Commit(ResumeEnd(Popped, Head(timers)))

\* No timer is due: time passes until the next one is
TimePasses ==
    /\ timers # <<>> /\ Head(timers).rem > 0
    /\ Commit([Cur EXCEPT !.timers = [i \in 1..Len(@) |-> [@[i] EXCEPT !.rem = @ - Head(timers).rem]],
                           !.games = [h \in 1..Len(@) |->
                                         IF @[h].endTime = NoTime THEN @[h]
                                         ELSE [@[h] EXCEPT !.endTime = Max2(0, @ - Head(timers).rem)]],
                           !.clock.same = FALSE])

GameIds == 0..MaxGames

Init ==
    /\ sockets = [w \in WS |-> [open |-> TRUE, playerId |-> w, playerName |-> NoName]]
    /\ waitingPlayersCasual = <<>>
    /\ waitingPlayersWager = <<>>
    /\ gameObjs = <<>>
    /\ activeGames = <<>>
    /\ playerToGame = <<>>
    /\ disconnectedPlayers = <<>>
    /\ itemsData = [n \in AccountNames |-> [i \in Items |-> InitHolding]]
    /\ timers = <<>>
    /\ clock = [stamp |-> 0, same |-> FALSE]
    /\ ledger = <<>>

LoginNames(w) == IF w = 1 THEN {"alice"} ELSE IF w = 2 THEN {"bob"} ELSE {}

\* Escrow slice: the connections 1..NumPlayers log in (or stay guests), are
\* matched in wager mode and take one session through wager, ready,
\* countdown and play to its end; a connection may drop at any moment.
Players == 1..NumPlayers

Next ==
    \/ \E w \in Players : \E name \in LoginNames(w) : SetName(w, name)
    \/ \E w \in Players : Len(gameObjs) < MaxEscrowGames /\ FindGame(w, TRUE, FALSE)
    \/ \E w \in Players : CancelSearch(w)
    \/ \E w \in Players, gameId \in GameIds, wager \in WagerInputs : UpdateWager(w, gameId, wager)
    \/ \E w \in Players, gameId \in GameIds, wager \in WagerInputs : ConfirmWager(w, gameId, wager)
    \/ \E w \in Players, gameId \in GameIds : LeaveWager(w, gameId)
    \/ \E w \in Players, gameId \in GameIds : CancelReady(w, gameId)
    \/ \E w \in Players, gameId \in GameIds : PlayerReady(w, gameId)
    \/ \E w \in Players, words \in WordInputs : SubmitWords(w, words)
    \/ \E w \in Players : Disconnect(w)
    \/ FireCountdownTick
    \/ FireCountdownEnd
    \/ FireStuckTimeout
    \/ FireGraceExpired
    \/ TimePasses

Spec == Init /\ [][Next]_vars

\* Matchmaking slice: every connection searches in either mode, cancels or
\* drops; sessions end by submissions or leave_wager, and Date.now() may or
\* may not have moved between two session creations.
Seekers == 1..NumSeekers

NextQueue ==
    \/ \E w \in Seekers, wagerMode \in BOOLEAN, sameMs \in BOOLEAN :
            Len(gameObjs) < MaxGames /\ FindGame(w, wagerMode, sameMs)
    \/ \E w \in Seekers : CancelSearch(w)
    \/ \E w \in Seekers, gameId \in GameIds : LeaveWager(w, gameId)
    \/ \E w \in Seekers : SubmitWords(w, <<W_cab, W_CAB>>)
    \/ \E w \in Seekers : Disconnect(w)

SpecQueue == Init /\ [][NextQueue]_vars

\* Rejoin slice: casual matchmaking in which a fresh connection may send
\* reconnect for a session and a player id of its choice.
NextRejoin ==
    \/ \E w \in Seekers, sameMs \in BOOLEAN : Len(gameObjs) < MaxGames /\ FindGame(w, FALSE, sameMs)
    \/ \E w \in Seekers : CancelSearch(w)
    \/ \E w \in Seekers : SubmitWords(w, <<W_cab, W_CAB>>)
    \/ \E w \in Seekers, gameId \in GameIds, oldPlayerId \in Seekers : FreshReconnect(w, gameId, oldPlayerId)
    \/ \E w \in Seekers : Disconnect(w)

SpecRejoin == Init /\ [][NextRejoin]_vars

\* the connection carries the id of a player of a session that is in play
InActivePlay(w) ==
    /\ Has(playerToGame, sockets[w].playerId)
    /\ Has(activeGames, playerToGame[sockets[w].playerId])
    /\ gameObjs[activeGames[playerToGame[sockets[w].playerId]]].status = "active"

\* Play slice: connections 1..NumPlayers are matched in one casual session
\* and play it; during active play a connection may drop and a fresh one may
\* reconnect for a slot (the fresh connections are used in order), and all
\* timers run.
NextPlay ==
    \/ \E w \in Players : Len(gameObjs) < MaxPlayGames /\ FindGame(w, FALSE, FALSE)
    \/ \E w \in WS : InActivePlay(w) /\ SubmitWords(w, <<W_cab, W_CAB, W_ABCDE>>)
    \/ \E w \in WS \ Players, gameId \in GameIds, oldPlayerId \in Players :
            /\ \A v \in WS \ Players : v < w => ~Fresh(v)
            /\ FreshReconnect(w, gameId, oldPlayerId)
    \/ \E w \in WS : InActivePlay(w) /\ Disconnect(w)
    \/ FireCountdownTick
    \/ FireCountdownEnd
    \/ FireStuckTimeout
    \/ FireGraceExpired
    \/ FireResumeTick
    \/ FireResumeEnd
    \/ TimePasses

SpecPlay == Init /\ [][NextPlay]_vars

\* the one map the players of the wager slice confirm: all they hold
Stake == [i \in Items |-> InitHolding]

\* Wager slice: connections 1..NumPlayers log in or stay guests and are
\* matched in one wager session; in it they edit their wager, confirm it with
\* the map Stake, get ready, or leave.
NextWager ==
    \/ \E w \in Players : \E name \in LoginNames(w) : SetName(w, name)
    \/ \E w \in Players : Len(gameObjs) < MaxEscrowGames /\ FindGame(w, TRUE, FALSE)
    \/ \E w \in Players, gameId \in GameIds, wager \in WagerInputs : UpdateWager(w, gameId, wager)
    \/ \E w \in Players, gameId \in GameIds : ConfirmWager(w, gameId, Stake)
    \/ \E w \in Players, gameId \in GameIds : LeaveWager(w, gameId)
    \/ \E w \in Players, gameId \in GameIds : CancelReady(w, gameId)
    \/ \E w \in Players, gameId \in GameIds : PlayerReady(w, gameId)

SpecWager == Init /\ [][NextWager]_vars

\* Scoring slice: connections 1..NumPlayers log in or stay guests, are
\* matched in one casual session and submit word lists (at any moment, and
\* again); the countdown and the stuck-match guard run.
NextScore ==
    \/ \E w \in Players : \E name \in LoginNames(w) : SetName(w, name)
    \/ \E w \in Players : Len(gameObjs) < MaxPlayGames /\ FindGame(w, FALSE, FALSE)
    \/ \E w \in Players, words \in ScoreInputs : SubmitWords(w, words)
    \/ FireCountdownTick
    \/ FireCountdownEnd
    \/ FireStuckTimeout
    \/ TimePasses

SpecScore == Init /\ [][NextScore]_vars

\* ===================================================================
\* Properties
\* ===================================================================
Handles == 1..Len(gameObjs)

\* the session object h is the one the Session Store holds under its id
InStore(h) == Has(activeGames, gameObjs[h].id) /\ activeGames[gameObjs[h].id] = h

NonEmpty(wager) == \E i \in Items : wager[i] > 0

HasAccount(p) == getPlayerData(p.name) # NoName

ScoreOf(g, i) == calculateResults(WordsOf(g.players[i]),
                                  SharedWords(WordsOf(g.players[1]), WordsOf(g.players[2]))).score

WinnerOf(g) == WinnerIndex(ScoreOf(g, 1), ScoreOf(g, 2))

\* per item kind, the confirmed wager maps of a session's slots
ConfirmedWager(g, i) == IF g.players[i].wagerConfirmed THEN g.players[i].wager ELSE emptyWager

ConfirmedPot(g) == [k \in Items |-> ConfirmedWager(g, 1)[k] + ConfirmedWager(g, 2)[k]]

\* session h is finished by this step
Finishes(h) == /\ h \in Handles /\ InStore(h)
               /\ gameObjs[h].status # "finished"
               /\ gameObjs'[h].status = "finished"

\* C1: once a session has left the Session Store, every slot of it whose
\* confirmed wager is not empty (and whose player has an inventory) has had
\* that wager credited exactly once, as a refund or as part of the pot.
C1_StakeCreditedExactlyOnce ==
    \A h \in Handles :
        ~InStore(h) =>
            \A i \in 1..2 :
                (gameObjs[h].players[i].wagerConfirmed
                    /\ NonEmpty(gameObjs[h].players[i].wager)
                    /\ HasAccount(gameObjs[h].players[i]))
                => ledger[h].credited[i] = 1

\* the items of a kind that exist: in the inventories and in the confirmed
\* wagers of the sessions in the store
RECURSIVE SumOver(_, _)
SumOver(f, S) == IF S = {} THEN 0
                 ELSE LET x == CHOOSE y \in S : TRUE IN f[x] + SumOver(f, S \ {x})

Escrowed(k) ==
    LET slots == {x \in Handles \X (1..2) :
                     /\ InStore(x[1])
                     /\ gameObjs[x[1]].players[x[2]].wagerConfirmed
                     /\ HasAccount(gameObjs[x[1]].players[x[2]])}
    IN SumOver([x \in slots |-> gameObjs[x[1]].players[x[2]].wager[k]], slots)

Held(k) == SumOver([n \in AccountNames |-> itemsData[n][k]], AccountNames)

\* C2: items are conserved: per item kind, inventories plus the confirmed
\* wagers of live sessions always add up to what the players started with.
C2_ItemsConserved ==
    \A k \in Items : Held(k) + Escrowed(k) = InitHolding * Cardinality(AccountNames)

\* C3: a finish with a winner and a non-empty pot: the pot is the sum of the
\* confirmed wager maps, the winner's inventory grows by the whole pot in
\* that step and the loser's inventory is not changed.
C3_WinnerTakesConfirmedPot ==
    [][\A h \in Handles :
          LET g == gameObjs'[h]
              win == WinnerOf(g)
          IN (Finishes(h) /\ win # 0 /\ NonEmpty(Pot(g))
                 /\ HasAccount(g.players[1]) /\ HasAccount(g.players[2]))
             => /\ Pot(g) = ConfirmedPot(g)
                /\ itemsData'[g.players[win].name] =
                       [k \in Items |-> itemsData[g.players[win].name][k] + ConfirmedPot(g)[k]]
                /\ itemsData'[g.players[3 - win].name] = itemsData[g.players[3 - win].name]
      ]_vars

\* C4: a wagered session that ended in a tie leaves both players' inventories
\* as they were before they confirmed.  (One session is played, so "before
\* they confirmed" is the initial holding.)
C4_TieRestoresInventories ==
    \A h \in Handles :
        (gameObjs[h].status = "finished" /\ WinnerOf(gameObjs[h]) = 0 /\ Len(gameObjs) = 1)
        => \A i \in 1..2 :
              HasAccount(gameObjs[h].players[i])
              => itemsData[gameObjs[h].players[i].name] = [k \in Items |-> InitHolding]

C6_InsufficientItemsRejected ==
    [][\A w \in WS, gameId \in GameIds, wager \in WagerInputs :
          (/\ ConfirmWager(w, gameId, wager)
           /\ Has(activeGames, gameId)
           /\ gameObjs[activeGames[gameId]].status = "wager"
           /\ findIndex(gameObjs[activeGames[gameId]], sockets[w].playerId) # 0
           /\ LET p == gameObjs[activeGames[gameId]].players[
                           findIndex(gameObjs[activeGames[gameId]], sockets[w].playerId)]
              IN HasAccount(p) /\ \E k \in Items : wager[k] > itemsData[p.name][k])
          => /\ itemsData' = itemsData
             /\ \A i \in 1..2 : gameObjs'[activeGames[gameId]].players[i].wagerConfirmed
                                  = gameObjs[activeGames[gameId]].players[i].wagerConfirmed
             /\ gameObjs'[activeGames[gameId]].status = "wager"
      ]_vars

\* ------------------------------------------------------------ matchmaking
InQueue(w) == InSeq(w, waitingPlayersCasual) \/ InSeq(w, waitingPlayersWager)

QueueOf(st, wagerMode) == IF wagerMode THEN st.wagerq ELSE st.casual

Without(q, w) == SelectSeq(q, LAMBDA x : x # w)

\* C7: an accepted find_game that finds the queue of its mode non-empty is
\* paired with the head (the longest waiting) of that queue, who is removed
\* from it, in a session of that mode; with the queue empty the seeker is
\* appended to it and is sent 'searching'.  The other mode's queue is not
\* touched either way.
C7_PairingFifoPerMode ==
    \A w \in WS, wagerMode \in BOOLEAN, sameMs \in BOOLEAN :
        (sockets[w].open /\ ~InQueue(w) /\ ~Has(playerToGame, sockets[w].playerId))
        => LET r == handleFindGame(Cur, w, wagerMode, sameMs)
               queue == QueueOf(Cur, wagerMode)
           IN /\ QueueOf(r, ~wagerMode) = QueueOf(Cur, ~wagerMode)
              /\ IF Len(queue) > 0
                 THEN /\ QueueOf(r, wagerMode) = Tail(queue)
                      /\ Len(r.games) = Len(gameObjs) + 1
                      /\ LET g == r.games[Len(r.games)]
                         IN /\ g.wagerMode = wagerMode
                            /\ g.players[1].ws = w
                            /\ g.players[2].ws = Head(queue)
                            /\ r.active[g.id] = Len(r.games)
                 ELSE /\ QueueOf(r, wagerMode) = Append(queue, w)
                      /\ r.games = gameObjs
                      /\ r.active = activeGames
                      /\ r.out = {[to |-> w, msg |-> [type |-> "searching"]]}

\* a wager session was made while somebody is waiting in the casual queue
C7_Witness ==
    /\ Len(waitingPlayersCasual) > 0
    /\ \E h \in Handles : InStore(h) /\ gameObjs[h].wagerMode
    /\ \E h \in Handles : ~gameObjs[h].wagerMode

Rejected(r, message, w) ==
    /\ r.casual = waitingPlayersCasual
    /\ r.wagerq = waitingPlayersWager
    /\ r.games = gameObjs
    /\ r.active = activeGames
    /\ r.p2g = playerToGame
    /\ r.out = {[to |-> w, msg |-> [type |-> "error", message |-> message]]}

\* C8: find_game of a connection that waits in a queue is answered 'Already
\* searching', of one whose player id is mapped to a session 'Already in
\* game'; queues, session map and player-to-session map stay as they are and
\* no session is created.
C8_DuplicateFindGameRejected ==
    \A w \in WS, wagerMode \in BOOLEAN, sameMs \in BOOLEAN :
        LET r == handleFindGame(Cur, w, wagerMode, sameMs)
        IN /\ (sockets[w].open /\ InQueue(w)) => Rejected(r, "Already searching", w)
           /\ (sockets[w].open /\ ~InQueue(w) /\ Has(playerToGame, sockets[w].playerId))
                  => Rejected(r, "Already in game", w)

\* one connection waits in a queue while another one is in a session
C8_Witness ==
    /\ \E w \in WS : sockets[w].open /\ InQueue(w)
    /\ \E w \in WS : sockets[w].open /\ Has(playerToGame, sockets[w].playerId)

\* C9: cancel_search removes the connection from the queue that holds it,
\* keeps the others in order and leaves no entry of it in either queue; a
\* second cancel_search, or one of a connection that is not queued, changes
\* nothing; and the find_game of somebody else that follows does not pair
\* the connection.
C9_CancelSearchRemovesAndIsIdempotent ==
    \A w \in WS :
        sockets[w].open
        => LET r == handleCancelSearch(Cur, w)
               after == [r EXCEPT !.out = {}]
           IN /\ r.casual = Without(waitingPlayersCasual, w)
              /\ r.wagerq = Without(waitingPlayersWager, w)
              /\ ~InSeq(w, r.casual) /\ ~InSeq(w, r.wagerq)
              /\ [after EXCEPT !.casual = waitingPlayersCasual, !.wagerq = waitingPlayersWager] = Cur
              /\ handleCancelSearch(after, w) = after
              /\ ~InQueue(w) => r = Cur
              /\ \A w2 \in WS \ {w}, wagerMode \in BOOLEAN, sameMs \in BOOLEAN :
                    LET f == handleFindGame(after, w2, wagerMode, sameMs)
                    IN \A h \in 1..Len(f.games) :
                          h > Len(gameObjs) => \A i \in 1..2 : f.games[h].players[i].ws # w

\* a connection that searched in wager mode (it got its guest name and has
\* never been in a session) is open and in no queue (it cancelled) while
\* somebody else waits
C9_Witness ==
    \E w \in WS :
        /\ sockets[w].open /\ sockets[w].playerName = GuestName
        /\ ~InQueue(w)
        /\ \A h \in Handles, i \in 1..2 : gameObjs[h].players[i].ws # w
        /\ \E w2 \in WS \ {w} : InSeq(w2, waitingPlayersWager)

\* C10: every session in the store has two slots with different player ids,
\* and no player id is in a slot of two different sessions of the store.
C10_OnePlayerOneSlot ==
    /\ \A h \in Handles : InStore(h) => gameObjs[h].players[1].id # gameObjs[h].players[2].id
    /\ \A h1, h2 \in Handles :
          (h1 # h2 /\ InStore(h1) /\ InStore(h2))
          => \A i, j \in 1..2 : gameObjs[h1].players[i].id # gameObjs[h2].players[j].id

\* ---------------------------------------------------------------- the round
\* C11: the words of a slot are fixed by its first submit_words: while the
\* session is active and in the store, a slot that has words keeps exactly
\* them.
C11_FirstSubmissionStands ==
    [][\A h \in Handles, i \in 1..2 :
          (InStore(h) /\ gameObjs[h].status = "active" /\ gameObjs[h].players[i].words # NULL)
          => gameObjs'[h].players[i].words = gameObjs[h].players[i].words
      ]_vars

\* C12: when play resumes after a disconnect in active play, the time left
\* that is restored is the one captured when the session was paused (so it
\* is never more than the time left at the pause).
C12_ResumeRestoresPausedTime ==
    [][\A h \in Handles :
          (gameObjs[h].paused /\ ~gameObjs'[h].paused)
          => gameObjs'[h].endTime = gameObjs[h].pausedTimeRemaining
      ]_vars

\* the grace timer of a player who is still missing from a session in active
\* play is the timer that fires next
GraceDue ==
    /\ timers # <<>> /\ Head(timers).rem = 0 /\ Head(timers).k = "grace"
    /\ InStore(Head(timers).h)
    /\ gameObjs[Head(timers).h].id = Head(timers).gid
    /\ gameObjs[Head(timers).h].status = "active"
    /\ gameObjs[Head(timers).h].players[Head(timers).n].id = Head(timers).pid
    /\ ~gameObjs[Head(timers).h].players[Head(timers).n].connected

WordSet(ws) == {ws[k] : k \in 1..Len(ws)}

\* the result res lists exactly the words of mine, each once; a word that is
\* also in theirs has 0 points and is flagged shared, any other word has the
\* points of its length and is not flagged; the total is the sum of the
\* length-table values of the words that are in mine only
ScoredRight(res, mine, theirs) ==
    /\ WordSet([k \in 1..Len(res.words) |-> res.words[k].word]) = mine
    /\ Len(res.words) = Cardinality(mine)
    /\ \A k \in 1..Len(res.words) :
          IF res.words[k].word \in theirs
          THEN res.words[k].points = 0 /\ res.words[k].shared
          ELSE res.words[k].points = getWordScore(Len(res.words[k].word)) /\ ~res.words[k].shared
    /\ res.score = SumOver([x \in mine \ theirs |-> getWordScore(Len(x))], mine \ theirs)

\* the submit_words of connection w with this list finishes session h
SubmitFinishes(w, words, h) ==
    /\ sockets[w].open /\ InStore(h)
    /\ gameObjs[h].status # "finished"
    /\ handleSubmitWords(Cur, w, words).games[h].status = "finished"

\* the words of slot j (in capitals) when w's submission finishes session h
SubmittedSet(w, words, h, j) ==
    IF gameObjs[h].players[j].id = sockets[w].playerId
    THEN WordSet([k \in 1..Len(words) |-> toUpperCase(words[k])])
    ELSE WordSet(WordsOf(gameObjs[h].players[j]))

\* C14: when a submission finishes a session, the result sent to each player
\* scores both word sets so that a word in both sets has 0 points and is
\* flagged shared on both sides, and each total is the sum of the
\* length-table values of the words only that player has.
C14_SharedWordsScoreZero ==
    \A w \in Players, words \in ScoreInputs, h \in Handles :
        SubmitFinishes(w, words, h)
        => \A j \in 1..2 :
              CanSend(Cur, gameObjs[h].players[j])
              => \E m \in handleSubmitWords(Cur, w, words).out :
                    /\ m.to = gameObjs[h].players[j].ws
                    /\ m.msg.type = "game_end"
                    /\ m.msg.sharedWords = SubmittedSet(w, words, h, 1) \cap SubmittedSet(w, words, h, 2)
                    /\ ScoredRight(m.msg.you, SubmittedSet(w, words, h, j), SubmittedSet(w, words, h, 3 - j))
                    /\ ScoredRight(m.msg.opponent, SubmittedSet(w, words, h, 3 - j), SubmittedSet(w, words, h, j))

\* a session finished with CAB and ABC against CAB
C14_Witness ==
    \E h \in Handles :
        /\ gameObjs[h].status = "finished"
        /\ gameObjs[h].players[1].words = <<W_CAB, W_ABC>>
        /\ gameObjs[h].players[2].words = <<W_CAB>>

\* the winner named in result m, sent to slot j of session g, is the player
\* with the strictly greater total, or nobody when the totals are equal
WinnerRight(m, g, j) ==
    m.msg.winner = (IF m.msg.you.score > m.msg.opponent.score THEN g.players[j].name
                    ELSE IF m.msg.opponent.score > m.msg.you.score THEN g.players[3 - j].name
                    ELSE NoName)

\* the stuck-match guard of a session that is not finished fires next
StuckDue ==
    /\ timers # <<>> /\ Head(timers).rem = 0 /\ Head(timers).k = "stuck"
    /\ InStore(Head(timers).h)
    /\ gameObjs[Head(timers).h].status # "finished"

\* C15: in the result of a finished session (finished by the second
\* submission or by the stuck-match guard) the totals are those of the two
\* word sets, the winner is the player whose total is strictly greater than
\* the other's, and there is no winner when the totals are equal.
C15_WinnerStrictlyGreater ==
    /\ \A w \in Players, words \in ScoreInputs, h \in Handles :
          SubmitFinishes(w, words, h)
          => \A j \in 1..2 :
                CanSend(Cur, gameObjs[h].players[j])
                => \E m \in handleSubmitWords(Cur, w, words).out :
                      /\ m.to = gameObjs[h].players[j].ws
                      /\ m.msg.type = "game_end"
                      /\ m.msg.you.score = SumOver(
                             [x \in SubmittedSet(w, words, h, j) \ SubmittedSet(w, words, h, 3 - j)
                                 |-> getWordScore(Len(x))],
                             SubmittedSet(w, words, h, j) \ SubmittedSet(w, words, h, 3 - j))
                      /\ m.msg.opponent.score = SumOver(
                             [x \in SubmittedSet(w, words, h, 3 - j) \ SubmittedSet(w, words, h, j)
                                 |-> getWordScore(Len(x))],
                             SubmittedSet(w, words, h, 3 - j) \ SubmittedSet(w, words, h, j))
                      /\ WinnerRight(m, gameObjs[h], j)
    /\ StuckDue
          => \A j \in 1..2 :
                CanSend(Cur, gameObjs[Head(timers).h].players[j])
                => \E m \in StuckTimeout(Popped, Head(timers)).out :
                      /\ m.to = gameObjs[Head(timers).h].players[j].ws
                      /\ m.msg.type = "game_end"
                      /\ m.msg.you.score = ScoreOf(gameObjs[Head(timers).h], j)
                      /\ m.msg.opponent.score = ScoreOf(gameObjs[Head(timers).h], 3 - j)
                      /\ WinnerRight(m, gameObjs[Head(timers).h], j)

\* a finished session of two differently named players whose totals are
\* equal without a shared word (CAB against ABC)
C15_Witness ==
    \E h \in Handles :
        /\ gameObjs[h].status = "finished"
        /\ gameObjs[h].players[1].words = <<W_CAB>>
        /\ gameObjs[h].players[2].words = <<W_ABC>>
        /\ gameObjs[h].players[1].name # gameObjs[h].players[2].name

\* ------------------------------------------------- unknown session or player
\* no session is stored under gameId
UnknownSession(gameId) == ~Has(activeGames, gameId)

\* a session is stored under gameId and pid is in neither of its slots
NotInSession(gameId, pid) ==
    /\ Has(activeGames, gameId)
    /\ gameObjs[activeGames[gameId]].players[1].id # pid
    /\ gameObjs[activeGames[gameId]].players[2].id # pid

\* C16: update_wager, confirm_wager, leave_wager, player_ready and
\* cancel_ready that name a session that is not in the store, or come from
\* a player who is in neither slot of it, change nothing and send nothing;
\* so does submit_words of a player whose session is gone or does not hold
\* that player (with no session at all the answer is 'Not in a game');
\* reconnect is answered reconnect_failed with 'Game not found or already
\* ended' or 'Player not in game', and changes nothing.
C16_UnknownSessionOrPlayerIgnored ==
    \A w \in WS, gameId \in GameIds :
        sockets[w].open =>
          /\ (UnknownSession(gameId) \/ NotInSession(gameId, sockets[w].playerId))
                => /\ \A wager \in WagerInputs :
                        /\ handleUpdateWager(Cur, w, gameId, wager) = Cur
                        /\ handleConfirmWager(Cur, w, gameId, wager) = Cur
                   /\ handleLeaveWager(Cur, w, gameId) = Cur
                   /\ handlePlayerReady(Cur, w, gameId) = Cur
                   /\ handleCancelReady(Cur, w, gameId) = Cur
          /\ \A words \in WordInputs :
                IF ~Has(playerToGame, sockets[w].playerId)
                THEN handleSubmitWords(Cur, w, words)
                        = Send(Cur, w, [type |-> "error", message |-> "Not in a game"])
                ELSE (UnknownSession(playerToGame[sockets[w].playerId])
                        \/ NotInSession(playerToGame[sockets[w].playerId], sockets[w].playerId))
                     => handleSubmitWords(Cur, w, words) = Cur
          /\ \A oldPlayerId \in WS :
                /\ UnknownSession(gameId)
                      => handleReconnect(Cur, w, gameId, oldPlayerId)
                           = Send(Cur, w, [type |-> "reconnect_failed",
                                           reason |-> "Game not found or already ended"])
                /\ NotInSession(gameId, oldPlayerId)
                      => handleReconnect(Cur, w, gameId, oldPlayerId)
                           = Send(Cur, w, [type |-> "reconnect_failed", reason |-> "Player not in game"])

\* a wager session is in the store with an open connection that is in
\* neither of its slots, and another session has left the store
C16_Witness ==
    /\ \E h \in Handles, w \in WS :
          /\ InStore(h) /\ gameObjs[h].wagerMode /\ gameObjs[h].status = "wager"
          /\ sockets[w].open /\ NotInSession(gameObjs[h].id, sockets[w].playerId)
          /\ sockets[w].playerName # NoName
    /\ \E h \in Handles : UnknownSession(gameObjs[h].id)

\* ------------------------------------------------------------ wager phase
\* connection w holds slot i of the session stored under gameId, which is in
\* its wager phase, and that slot's wager is confirmed
ConfirmedSlot(w, gameId, i) ==
    /\ Has(activeGames, gameId)
    /\ gameObjs[activeGames[gameId]].status = "wager"
    /\ gameObjs[activeGames[gameId]].players[i].id = sockets[w].playerId
    /\ gameObjs[activeGames[gameId]].players[i].wagerConfirmed

\* C18: an update_wager of a slot whose wager is confirmed (the opponent has
\* not confirmed yet) leaves that slot's stored wager map as it is.
C18_ConfirmedWagerFixed ==
    [][\A w \in WS, gameId \in GameIds, wager \in WagerInputs, i \in 1..2 :
          (ConfirmedSlot(w, gameId, i) /\ UpdateWager(w, gameId, wager))
          => gameObjs'[activeGames[gameId]].players[i].wager
                = gameObjs[activeGames[gameId]].players[i].wager
      ]_vars

\* C19: a confirm_wager of a slot whose wager is already confirmed takes
\* nothing from any inventory and leaves the slot's stored wager map as it
\* is.
C19_DebitedAtMostOnce ==
    [][\A w \in WS, gameId \in GameIds, wager \in WagerInputs, i \in 1..2 :
          (ConfirmedSlot(w, gameId, i) /\ ConfirmWager(w, gameId, wager))
          => /\ itemsData' = itemsData
             /\ gameObjs'[activeGames[gameId]].players[i].wager
                   = gameObjs[activeGames[gameId]].players[i].wager
      ]_vars

\* connection w holds a slot of the session stored under gameId, which is in
\* its wager or ready phase
InWagerOrReady(w, gameId) ==
    /\ Has(activeGames, gameId)
    /\ gameObjs[activeGames[gameId]].status \in {"wager", "ready"}
    /\ findIndex(gameObjs[activeGames[gameId]], sockets[w].playerId) # 0

\* what slot i of session h gets back: the map it confirmed (in the wager
\* slice every confirm_wager carries Stake), or nothing when it has not
\* confirmed
ConfirmedMap(h, i) ==
    IF gameObjs[h].players[i].wagerConfirmed THEN Stake ELSE emptyWager

\* C17: leave_wager or cancel_ready from a slot of a session in its wager or
\* ready phase: each slot's inventory grows by exactly the map that slot
\* confirmed (by nothing when it has not confirmed) and no other inventory
\* changes; the session leaves the store and both players' routing entries
\* are removed in that step; the opponent, if connected, is sent
\* opponent_cancelled_wager.
C17_LeaveRefundsConfirmedMaps ==
    [][\A w \in WS, gameId \in GameIds :
          (InWagerOrReady(w, gameId) /\ (LeaveWager(w, gameId) \/ CancelReady(w, gameId)))
          => LET h == activeGames[gameId]
                 g == gameObjs[h]
                 i == findIndex(g, sockets[w].playerId)
             IN /\ \A j \in 1..2 :
                      HasAccount(g.players[j])
                      => itemsData'[g.players[j].name]
                            = [k \in Items |-> itemsData[g.players[j].name][k] + ConfirmedMap(h, j)[k]]
                /\ \A n \in AccountNames :
                      (n # g.players[1].name /\ n # g.players[2].name) => itemsData'[n] = itemsData[n]
                /\ ~Has(activeGames', gameId)
                /\ ~Has(playerToGame', g.players[1].id)
                /\ ~Has(playerToGame', g.players[2].id)
                /\ CanSend(Cur, g.players[3 - i])
                      => [to |-> g.players[3 - i].ws, msg |-> [type |-> "opponent_cancelled_wager"]]
                            \in handleLeaveWager(Cur, w, gameId).out
      ]_vars

\* ---------------------------------------------------------------- reconnect
\* the grace timers pending for player pid
GraceTimers(tm, pid) == {j \in 1..Len(tm) : tm[j].k = "grace" /\ tm[j].pid = pid}

\* slot i of session h, in active play, is connected through an open socket
\* other than w, while w still carries the slot's player id: the player has
\* reconnected and w is the player's previous socket
Superseded(w, h, i) ==
    /\ InStore(h) /\ gameObjs[h].status = "active"
    /\ gameObjs[h].players[i].id = sockets[w].playerId
    /\ gameObjs[h].players[i].ws # w
    /\ gameObjs[h].players[i].connected
    /\ sockets[gameObjs[h].players[i].ws].open

\* C20: when the close of a player's previous socket is processed after the
\* player has reconnected, the slot stays connected, the session is not
\* paused by it and no grace timer is started for the player.
C20_ReconnectSurvivesOldClose ==
    [][\A w \in WS, h \in Handles, i \in 1..2 :
          (Superseded(w, h, i) /\ Disconnect(w))
          => /\ gameObjs'[h].players[i].connected
             /\ gameObjs'[h].paused = gameObjs[h].paused
             /\ Cardinality(GraceTimers(timers', sockets[w].playerId))
                   <= Cardinality(GraceTimers(timers, sockets[w].playerId))
      ]_vars

\* ------------------------------------------------------------ pause, timers
\* C21: a session leaves the paused state only with both slots connected: a
\* step that unpauses a session leaves no slot of it disconnected.
C21_NoResumeWhileDisconnected ==
    [][\A h \in Handles :
          (gameObjs[h].paused /\ ~gameObjs'[h].paused)
          => \A i \in 1..2 : gameObjs'[h].players[i].connected
      ]_vars

\* the callback of timer t, run on state st
Callback(st, t) ==
    CASE t.k = "cd_tick" -> CountdownTick(st, t)
      [] t.k = "cd_end" -> CountdownEnd(st, t)
      [] t.k = "stuck" -> StuckTimeout(st, t)
      [] t.k = "grace" -> GraceExpired(st, t)
      [] t.k = "rs_tick" -> ResumeTick(st, t)
      [] t.k = "rs_end" -> ResumeEnd(st, t)

\* the timer that fires next belongs to a session that is finished or no
\* longer in the store
StaleTimerDue ==
    /\ timers # <<>> /\ Head(timers).rem = 0
    /\ (~InStore(Head(timers).h) \/ gameObjs[Head(timers).h].status = "finished")

\* C22: a timer that fires for a session that is finished or has left the
\* store sends no message and changes no session, store or routing state.
C22_StaleTimerDoesNothing ==
    StaleTimerDue
    => /\ Callback(Popped, Head(timers)).out = {}
       /\ Callback(Popped, Head(timers)).games = gameObjs
       /\ Callback(Popped, Head(timers)).active = activeGames
       /\ Callback(Popped, Head(timers)).p2g = playerToGame

\* C23: the close of the socket of a slot of a session in its wager or ready
\* phase removes the session and both routing entries in that step, credits
\* every confirmed slot its stored wager, and starts no pause, disconnect
\* record or grace timer.
C23_DropInWagerTearsDown ==
    [][\A w \in WS, gameId \in GameIds :
          (InWagerOrReady(w, gameId) /\ Disconnect(w))
          => LET h == activeGames[gameId]
                 g == gameObjs[h]
             IN /\ ~Has(activeGames', gameId)
                /\ ~Has(playerToGame', g.players[1].id)
                /\ ~Has(playerToGame', g.players[2].id)
                /\ \A j \in 1..2 :
                      HasAccount(g.players[j])
                      => itemsData'[g.players[j].name]
                            = [k \in Items |-> itemsData[g.players[j].name][k] + ConfirmedWager(g, j)[k]]
                /\ ~gameObjs'[h].paused
                /\ ~Has(disconnectedPlayers', sockets[w].playerId)
                /\ GraceTimers(timers', sockets[w].playerId) = {}
      ]_vars

\* ------------------------------------------------------------------ phases
\* C24: submit_words of a slot of a session in its wager, ready or countdown
\* phase stores no words and leaves the session in its phase (it does not
\* finish it).
C24_NoSubmissionBeforePlay ==
    [][\A w \in WS, words \in WordInputs, h \in Handles :
          (/\ InStore(h)
           /\ gameObjs[h].status \in {"wager", "ready", "countdown"}
           /\ findIndex(gameObjs[h], sockets[w].playerId) # 0
           /\ SubmitWords(w, words))
          => /\ gameObjs'[h].status = gameObjs[h].status
             /\ \A i \in 1..2 : gameObjs'[h].players[i].words = gameObjs[h].players[i].words
      ]_vars

\* C25: leave_wager or cancel_ready from a slot of a session that is in its
\* countdown or in (active or paused) play leaves the session, the store,
\* the routing entries and the inventories as they are.
C25_NoLeaveAfterReady ==
    [][\A w \in WS, gameId \in GameIds :
          (/\ Has(activeGames, gameId)
           /\ gameObjs[activeGames[gameId]].status \in {"countdown", "active"}
           /\ findIndex(gameObjs[activeGames[gameId]], sockets[w].playerId) # 0
           /\ (LeaveWager(w, gameId) \/ CancelReady(w, gameId)))
          => /\ gameObjs' = gameObjs
             /\ activeGames' = activeGames
             /\ playerToGame' = playerToGame
             /\ itemsData' = itemsData
      ]_vars

\* C26: a reconnect that names a slot whose connection is still attached
\* (connected, through an open socket other than the sender) leaves that
\* slot's connection and the sender's player id as they are.
C26_ReconnectOnlyToDisconnectedSlot ==
    [][\A w \in WS, gameId \in GameIds, oldPlayerId \in WS, i \in 1..2 :
          (/\ Has(activeGames, gameId)
           /\ gameObjs[activeGames[gameId]].players[i].id = oldPlayerId
           /\ gameObjs[activeGames[gameId]].players[i].connected
           /\ gameObjs[activeGames[gameId]].players[i].ws # w
           /\ sockets[gameObjs[activeGames[gameId]].players[i].ws].open
           /\ Reconnect(w, gameId, oldPlayerId))
          => /\ gameObjs'[activeGames[gameId]].players[i].ws
                   = gameObjs[activeGames[gameId]].players[i].ws
             /\ sockets'[w].playerId = sockets[w].playerId
      ]_vars

\* An error thrown by a timer callback is caught by nothing (the try/catch
\* of the message handler does not enclose it): the process ends with all it
\* held in memory, and its connections close.  The inventories are what was
\* last saved.
Crash ==
    /\ timers # <<>> /\ Head(timers).rem = 0
    /\ Callback(Popped, Head(timers)).err
    /\ sockets' = [w \in WS |-> [sockets[w] EXCEPT !.open = FALSE]]
    /\ waitingPlayersCasual' = <<>>
    /\ waitingPlayersWager' = <<>>
    /\ gameObjs' = <<>>
    /\ activeGames' = <<>>
    /\ playerToGame' = <<>>
    /\ disconnectedPlayers' = <<>>
    /\ timers' = <<>>
    /\ ledger' = <<>>
    /\ UNCHANGED <<itemsData, clock>>

\* Malformed-message slice: connections 1..NumPlayers log in or stay guests
\* and take one wager session through all its phases; update_wager and
\* confirm_wager may come without a wager, submit_words with words that are
\* no list.  A leave_wager that throws after a refund can be repeated without
\* end; the slice bounds the holdings it builds up.
HoldingsBelowMax == \A n \in AccountNames, i \in Items : itemsData[n][i] < MaxHolding

NextMalformed ==
    \/ \E w \in Players : \E name \in LoginNames(w) : SetName(w, name)
    \/ \E w \in Players : Len(gameObjs) < MaxEscrowGames /\ FindGame(w, TRUE, FALSE)
    \/ \E w \in Players, gameId \in GameIds : UpdateWager(w, gameId, Undefined)
    \/ \E w \in Players, gameId \in GameIds, wager \in {Stake, Undefined} : ConfirmWager(w, gameId, wager)
    \/ \E w \in Players, gameId \in GameIds : HoldingsBelowMax /\ LeaveWager(w, gameId)
    \/ \E w \in Players, gameId \in GameIds : PlayerReady(w, gameId)
    \/ \E w \in Players, words \in {<<W_cab>>, NotAList} : SubmitWords(w, words)
    \/ FireCountdownTick
    \/ FireCountdownEnd
    \/ FireStuckTimeout
    \/ Crash
    \/ TimePasses

SpecMalformed == Init /\ [][NextMalformed]_vars

\* the handler's result r leaves sessions, routing and inventories as they are
Dropped(r) ==
    /\ r.games = gameObjs
    /\ r.active = activeGames
    /\ r.p2g = playerToGame
    /\ r.items = itemsData

\* C27: a malformed message (update_wager or confirm_wager without a wager,
\* submit_words with words that are no list) is dropped, leaving sessions and
\* inventories unchanged; no timer that comes due afterwards throws; and no
\* session is left finished but still in the store.
C27_MalformedMessagesDropped ==
    /\ \A w \in Players, gameId \in GameIds :
          sockets[w].open => /\ Dropped(handleUpdateWager(Cur, w, gameId, Undefined))
                             /\ Dropped(handleConfirmWager(Cur, w, gameId, Undefined))
    /\ \A w \in Players : sockets[w].open => Dropped(handleSubmitWords(Cur, w, NotAList))
    /\ (timers # <<>> /\ Head(timers).rem = 0) => ~Callback(Popped, Head(timers)).err
    /\ \A h \in Handles : InStore(h) => gameObjs[h].status # "finished"

\* C28: the stuck-match guard does not force-finish a session whose play is
\* running (active and not paused, as after a pause and resume) before the
\* play time it was told it has left has elapsed.
C28_GuardWaitsForRestoredTime ==
    [][\A h \in Handles :
          (/\ FireStuckTimeout
           /\ Head(timers).h = h
           /\ InStore(h)
           /\ gameObjs[h].status = "active"
           /\ ~gameObjs[h].paused)
          => SecondsLeft(gameObjs[h]) = 0]_vars

\* the handler's result r has finished session h through scoring and
\* settlement: it has left the store and every connected player with an open
\* socket is sent game_end
ForceFinished(r, h) ==
    /\ ~Has(r.active, gameObjs[h].id)
    /\ r.games[h].status = "finished"
    /\ \A i \in 1..2 :
          (gameObjs[h].players[i].connected /\ sockets[gameObjs[h].players[i].ws].open)
          => \E m \in r.out : m.to = gameObjs[h].players[i].ws /\ m.msg.type = "game_end"

\* C29: no session is in the store later than GAME_TIME + 15 seconds after
\* it entered countdown (the stuck-match timer was set at that entry); and
\* when that timer fires on a session in the store, in whatever phase, the
\* session is finished through scoring and settlement.
C29_ForceFinishedAtRoundPlus15 ==
    /\ \A i \in 1..Len(timers) :
          (timers[i].k = "stuck" /\ timers[i].d - timers[i].rem > GAME_TIME + 15)
          => ~InStore(timers[i].h)
    /\ StuckDue => ForceFinished(StuckTimeout(Popped, Head(timers)), Head(timers).h)

\* Timeout slice: the connections are matched in casual sessions (Date.now()
\* may or may not have moved between two session creations), a player may
\* drop during active play, nobody submits, and all timers run.
NextTimeout ==
    \/ \E w \in WS, sameMs \in BOOLEAN : Len(gameObjs) < MaxGames /\ FindGame(w, FALSE, sameMs)
    \/ \E w \in WS : InActivePlay(w) /\ Disconnect(w)
    \/ FireCountdownTick
    \/ FireCountdownEnd
    \/ FireStuckTimeout
    \/ FireGraceExpired
    \/ TimePasses

\* Timers are run by the event loop: a timer that is due fires, and time
\* passes while none is due.
TimerStep ==
    \/ FireCountdownTick
    \/ FireCountdownEnd
    \/ FireStuckTimeout
    \/ FireGraceExpired
    \/ TimePasses

SpecTimeout == Init /\ [][NextTimeout]_vars /\ WF_vars(TimerStep)

\* session h is finished and out of the store, and neither of its players'
\* ids routes to it
FinishedAndRemoved(h) ==
    /\ h \in Handles
    /\ gameObjs[h].status = "finished"
    /\ ~InStore(h)
    /\ \A i \in 1..2 : ~(/\ Has(playerToGame, gameObjs[h].players[i].id)
                           /\ playerToGame[gameObjs[h].players[i].id] = gameObjs[h].id)

\* session h has entered countdown (a wager session that was left before
\* has not) and none of its timers is pending any more
TimersRanOut(h) ==
    /\ gameObjs[h].status \in {"countdown", "active", "finished"}
    /\ \A i \in 1..Len(timers) : timers[i].h # h

\* C30: every session that enters countdown is finished and removed from the
\* store together with both routing entries by the time its timers have all
\* fired, whatever the players do: after that moment nothing is left that
\* would finish it if the players do nothing.
C30_TimersLeaveSessionRemoved ==
    \A h \in Handles : TimersRanOut(h) => FinishedAndRemoved(h)

\* C31: in the step that marks a session finished, the session, both players'
\* routing entries to it and their disconnect records leave the store; no
\* session in the store has phase finished; and a finished session keeps
\* that phase.
C31_FinishedIsRemovedAndTerminal ==
    [][\A h \in Handles :
          h \in 1..Len(gameObjs')
          => /\ (gameObjs[h].status # "finished" /\ gameObjs'[h].status = "finished")
                  => /\ ~Has(activeGames', gameObjs[h].id)
                     /\ \A i \in 1..2 :
                           /\ ~Has(playerToGame', gameObjs[h].players[i].id)
                           /\ ~Has(disconnectedPlayers', gameObjs[h].players[i].id)
             /\ gameObjs'[h].status = "finished"
                  => ~(Has(activeGames', gameObjs[h].id) /\ activeGames'[gameObjs[h].id] = h)
             /\ gameObjs[h].status = "finished" => gameObjs'[h].status = "finished"]_vars

\* C32: a player id is mapped to a session id exactly when the session the
\* store holds under that id has the player id in one of its two slots.
C32_RoutingAgreesWithStore ==
    /\ \A pid \in DOMAIN playerToGame :
          /\ Has(activeGames, playerToGame[pid])
          /\ findIndex(gameObjs[activeGames[playerToGame[pid]]], pid) # 0
    /\ \A h \in Handles :
          InStore(h)
          => \A i \in 1..2 :
                /\ Has(playerToGame, gameObjs[h].players[i].id)
                /\ playerToGame[gameObjs[h].players[i].id] = gameObjs[h].id

\* C33: a step that creates a session gives it an id under which the store
\* holds no session, and leaves every session of the store in it.
C33_NewSessionIdIsFresh ==
    [][Len(gameObjs') > Len(gameObjs)
          => /\ ~Has(activeGames, gameObjs'[Len(gameObjs')].id)
             /\ \A h \in Handles :
                   InStore(h) => (/\ Has(activeGames', gameObjs[h].id)
                                  /\ activeGames'[gameObjs[h].id] = h)]_vars

\* C34: every disconnect record names a session that is in the store and a
\* slot of it that holds the record's player id and is disconnected; and
\* every pending grace timer is the timer of an existing record (the timers
\* of records that are gone have been cancelled).
C34_DisconnectRecordsAreLive ==
    /\ \A pid \in DOMAIN disconnectedPlayers :
          LET info == disconnectedPlayers[pid]
          IN /\ Has(activeGames, info.gameId)
             /\ gameObjs[activeGames[info.gameId]].players[info.playerIndex].id = pid
             /\ ~gameObjs[activeGames[info.gameId]].players[info.playerIndex].connected
    /\ \A j \in 1..Len(timers) :
          timers[j].k = "grace" => (Has(disconnectedPlayers, timers[j].pid) /\ timers[j].cur)

\* w is the socket of the connected slot i of session h, which is in the
\* store, in active play and not paused
ClosesInPlay(w, h, i) ==
    /\ sockets[w].open
    /\ InStore(h)
    /\ gameObjs[h].status = "active"
    /\ ~gameObjs[h].paused
    /\ gameObjs[h].players[i].ws = w
    /\ gameObjs[h].players[i].connected

PausedInPlay(h) == InStore(h) /\ gameObjs[h].status = "active" /\ gameObjs[h].paused

\* the handler's result r starts a resume countdown
StartsResume(r) == \E j \in 1..Len(r.pend) : r.pend[j].k \in {"rs_tick", "rs_end"}

Pending(tm, k, h, n, rem) ==
    \E j \in 1..Len(tm) : tm[j].k = k /\ tm[j].h = h /\ tm[j].n = n /\ tm[j].rem = rem

\* a countdown timer (tick or end) is due
CountdownTimerDue == timers # <<>> /\ Head(timers).rem = 0 /\ Head(timers).k \in {"cd_tick", "cd_end"}

\* C37: a session that enters countdown has its ticks 3, 2, 1 set for 0, 1
\* and 2 seconds later and its start for 3 seconds later; each tick, when it
\* is due, finds the session in the store in countdown and is broadcast to
\* the players that can be reached; the start, when it is due, finds the
\* session in countdown with no tick left and makes it active with
\* GAME_TIME seconds to the end of the round; and a session becomes active
\* by that step only.
C37_ThreeTicksThenActive ==
    [][/\ \A h \in 1..Len(gameObjs') :
             (/\ gameObjs'[h].status = "countdown"
              /\ (h \in Handles => gameObjs[h].status # "countdown"))
             => /\ Pending(timers', "cd_tick", h, 3, 0)
                /\ Pending(timers', "cd_tick", h, 2, 1)
                /\ Pending(timers', "cd_tick", h, 1, 2)
                /\ Pending(timers', "cd_end", h, 0, countdownSeconds)
       /\ CountdownTimerDue
             => LET t == Head(timers)
                    g == gameObjs[t.h]
                IN /\ InStore(t.h)
                   /\ g.status = "countdown"
                   /\ t.k = "cd_tick"
                         => \A i \in 1..2 :
                               CanSend(Cur, g.players[i])
                               => [to |-> g.players[i].ws,
                                   msg |-> [type |-> "countdown_tick", seconds |-> t.n]]
                                      \in CountdownTick(Popped, t).out
                   /\ t.k = "cd_end"
                         => /\ \A j \in 1..Len(timers) : ~(timers[j].k = "cd_tick" /\ timers[j].h = t.h)
                            /\ CountdownEnd(Popped, t).games[t.h].status = "active"
                            /\ CountdownEnd(Popped, t).games[t.h].endTime = GAME_TIME
       /\ \A h \in Handles :
             (/\ h \in 1..Len(gameObjs')
              /\ gameObjs[h].status # "active" /\ gameObjs'[h].status = "active")
             => /\ FireCountdownEnd
                /\ Head(timers).h = h]_vars

BothConfirmed(g) == g.players[1].wagerConfirmed /\ g.players[2].wagerConfirmed

\* C38: a session in the store is in its wager phase while at most one slot
\* is confirmed and in its ready phase only with both slots confirmed; a
\* confirm_wager of a player of a session in its wager phase makes the
\* session ready exactly if it leaves both slots confirmed, and then sends
\* each player that can be reached wagers_locked with the player's own and
\* the opponent's confirmed map.
C38_ReadyWhenBothConfirmed ==
    /\ \A h \in Handles :
          InStore(h)
          => /\ gameObjs[h].status = "wager" => ~BothConfirmed(gameObjs[h])
             /\ gameObjs[h].status = "ready" => BothConfirmed(gameObjs[h])
    /\ \A w \in Players, h \in Handles, wager \in WagerInputs \cup {Undefined} :
          (/\ sockets[w].open /\ InStore(h) /\ gameObjs[h].status = "wager"
           /\ findIndex(gameObjs[h], sockets[w].playerId) # 0)
          => LET r == handleConfirmWager(Cur, w, gameObjs[h].id, wager)
                 g == r.games[h]
             IN /\ g.players[findIndex(gameObjs[h], sockets[w].playerId)].wagerConfirmed
                /\ g.status = IF BothConfirmed(g) THEN "ready" ELSE "wager"
                /\ g.status = "ready"
                      => \A j \in 1..2 :
                            CanSend(Cur, g.players[j])
                            => [to |-> g.players[j].ws,
                                msg |-> [type |-> "wagers_locked",
                                         myWager |-> g.players[j].wager,
                                         oppWager |-> g.players[3 - j].wager]] \in r.out

BothReady(g) == g.players[1].ready /\ g.players[2].ready

\* C39: a session in the store has no ready flag in its wager phase, not
\* both in its ready phase, and both once a wager-mode session is in
\* countdown or play; player_ready of a player of a session in its ready
\* phase sets that slot's flag only and moves the session to countdown
\* exactly if both flags are then set (a second player_ready of the same
\* player does not); and player_ready for a session in any other phase, or
\* from somebody who is not in it, changes nothing.
C39_CountdownWhenBothReady ==
    /\ \A h \in Handles :
          InStore(h)
          => /\ gameObjs[h].status = "wager"
                   => ~gameObjs[h].players[1].ready /\ ~gameObjs[h].players[2].ready
             /\ gameObjs[h].status = "ready" => ~BothReady(gameObjs[h])
             /\ (gameObjs[h].wagerMode /\ gameObjs[h].status \in {"countdown", "active"})
                   => BothReady(gameObjs[h])
    /\ \A w \in WS, gameId \in GameIds :
          sockets[w].open
          => LET r == handlePlayerReady(Cur, w, gameId)
             IN IF /\ Has(activeGames, gameId)
                   /\ gameObjs[activeGames[gameId]].status = "ready"
                   /\ findIndex(gameObjs[activeGames[gameId]], sockets[w].playerId) # 0
                THEN LET h == activeGames[gameId]
                         i == findIndex(gameObjs[h], sockets[w].playerId)
                         g == r.games[h]
                     IN /\ g.players[i].ready
                        /\ g.players[3 - i].ready = gameObjs[h].players[3 - i].ready
                        /\ g.status = IF gameObjs[h].players[3 - i].ready THEN "countdown" ELSE "ready"
                        /\ gameObjs[h].players[i].ready => g.status = "ready"
                        /\ (r.pend # <<>>) = (g.status = "countdown")
                ELSE /\ r.games = gameObjs
                     /\ r.pend = <<>>
                     /\ r.out = {}

\* one player of a session in its ready phase has sent player_ready, the
\* other has not
C39_Witness ==
    \E h \in Handles :
        /\ InStore(h) /\ gameObjs[h].status = "ready"
        /\ gameObjs[h].players[1].ready # gameObjs[h].players[2].ready

\* C40: each of the two match queues holds at most one waiting connection,
\* and no connection waits in both.
C40_QueuesHoldAtMostOne ==
    /\ Len(waitingPlayersCasual) <= 1
    /\ Len(waitingPlayersWager) <= 1
    /\ \A w \in WS : ~(InSeq(w, waitingPlayersCasual) /\ InSeq(w, waitingPlayersWager))

\* somebody waits in each queue after a queue has been emptied by a pairing
C40_Witness ==
    /\ Len(waitingPlayersCasual) = 1
    /\ Len(waitingPlayersWager) = 1
    /\ Len(gameObjs) > 0

====
